---- MODULE Spec2Model ----
(***************************************************************************)
(* Verification model of the Second Chance operational scripts.            *)
(*                                                                         *)
(* Part 1: EmailNotificationService (scripts/email-notifications.js): the  *)
(*         send queue, its busy flag, the drain loop and the file fallback.*)
(* Part 2: TodoGenerator classification (scripts/todo-generator.js).       *)
(*                                                                         *)
(* JavaScript runs every callback to completion: an action of this model   *)
(* is one synchronous segment of code, from a call or the resumption of an *)
(* await up to the next await or the return.                               *)
(***************************************************************************)
EXTENDS Naturals, Sequences, FiniteSets, Bags

(***************************************************************************)
(* Bounds of the model.                                                    *)
(***************************************************************************)
\* number of sendNotification calls made in one run
MaxSubmit == 3
\* the last millisecond new Date() can return in one run (the first is 0)
MaxClock == 1

VARIABLES
    transporter,   \* this.transporter: "null" or "smtp"
    queue,         \* this.queue: sequence of emailData
    isProcessing,  \* this.isProcessing
    pc,            \* per sendNotification call: where its async activation stands
    cur,           \* per call: `email`, the local of the processQueue loop
    fname,         \* per call: `filename`, the local of logToFile
    files,         \* logs/email-notifications: file name -> content
    clock,         \* the last time new Date() returned
    subs,          \* history: the sendNotification calls, in order
    handed,        \* history: message ids in the order of their hand-over
    cnt,           \* history: per message, how often each step was taken
    failure,       \* TodoGenerator: the failure being classified
    priority,      \* TodoGenerator: result of determinePriority
    category,      \* TodoGenerator: result of determineCategory
    lastIndex,     \* TodoGenerator: failurePatterns[p].lastIndex, per pattern
    mpc,           \* EmailBugMonitor: where checkForBugReports stands
    logged,        \* EmailBugMonitor: the error checkForBugReports caught
    outcome,       \* EmailBugMonitor: how the checkForBugReports promise settled
    batch,         \* EmailBugMonitor: the unread emails of the poll, by number
    mst,           \* EmailBugMonitor: per email, where its parser callback stands
    bugReport,     \* EmailBugMonitor: per email, the bugReport of processEmail
    mfiles,        \* bug-reports, todos, acknowledgments: file name -> content
    bugReports,    \* EmailBugMonitor: this.bugReports, as the bag of its ids
    notes,         \* the bug_report notifications handed over, as a bag of ids
    gop,           \* TodoGenerator: the generate operation called and its input
    gpc,           \* TodoGenerator: where the operation stands
    gtodo,         \* TodoGenerator: `todo`, the local of the operation
    todos,         \* TodoGenerator: the TODOs the operation has saved, in order
    gfiles,        \* todos directory: file name -> content
    sent,          \* the sendNotification calls of generator and tests, in order
    stats,         \* TodoGenerator: what the last getStatistics returned
    browser,       \* SyntheticUserTests: this.browser
    results,       \* SyntheticUserTests: this.results
    criticalFailures, \* SyntheticUserTests: this.criticalFailures, as test names
    tpc,           \* SyntheticUserTests: where runAllTests stands
    tnum,          \* SyntheticUserTests: the number of the test that runs
    trace,         \* history: the finalisation steps that ran, in order
    emergencyLog,  \* EMERGENCY-CRISIS-FAILURE.log: the number of its entries
    suiteError     \* history: the catch block of runAllTests logged an error

vars == <<transporter, queue, isProcessing, pc, cur, fname, files, clock,
          subs, handed, cnt, failure, priority, category, lastIndex,
          mpc, logged, outcome, batch, mst, bugReport, mfiles, bugReports, notes,
          gop, gpc, gtodo, todos, gfiles, sent, stats,
          browser, results, criticalFailures, tpc, tnum, trace, emergencyLog,
          suiteError>>

dvars == <<transporter, queue, isProcessing, pc, cur, fname, files, clock,
           subs, handed, cnt>>
hvars == <<subs, handed, cnt>>
cvars == <<failure, priority, category, lastIndex>>

mvars == <<mpc, logged, outcome, batch, mst, bugReport, mfiles, bugReports, notes>>

gvars == <<gop, gpc, gtodo, todos, gfiles, sent, stats>>

tvars == <<browser, results, criticalFailures, tpc, tnum, trace, emergencyLog,
           suiteError>>

Undefined == "undefined"
NoEmail == [id |-> 0]
NoName == <<>>

\* the patterns of this.failurePatterns the classification uses
PatternNames == {"crisis", "security", "performance", "build"}

\* a RegExp is created with lastIndex 0
NeverSearched == [p \in PatternNames |-> 0]

\* no error was caught; no bugReport object exists
NoError == "none"
NoReport == [id |-> 0]

\* no generate operation has been called; no todo object exists
NoOp == [kind |-> "none"]
NoTodo == [id |-> <<>>]
NoStats == [asked |-> FALSE]

(***************************************************************************)
(* EMAIL_CONFIG and TEMPLATES.  Subjects are written without their emoji.  *)
(***************************************************************************)
EMAIL_CONFIG ==
    [recipient |-> "exiledev8668@gmail.com",
     from |-> "secondchance.notifications@gmail.com",
     subject_prefix |-> "[Second Chance]"]

TEMPLATES ==
    [test_results        |-> [subject |-> "Test Results", priority |-> "normal"],
     test_failure        |-> [subject |-> "Test Failure Detected", priority |-> "high"],
     build_success       |-> [subject |-> "Build Successful", priority |-> "normal"],
     build_failure       |-> [subject |-> "Build Failed", priority |-> "high"],
     security_alert      |-> [subject |-> "Security Alert", priority |-> "urgent"],
     performance_issue   |-> [subject |-> "Performance Issue Detected", priority |-> "high"],
     bug_report          |-> [subject |-> "Bug Report Received", priority |-> "normal"],
     crisis_system_error |-> [subject |-> "Crisis System Error", priority |-> "urgent"]]

\* the types and payloads that callers submit in this model
Inputs ==
    {<<"security_alert", [issue |-> "SQL injection"]>>,
     <<"custom_event", [issue |-> Undefined]>>}

Calls == 1..MaxSubmit

\* `x || dflt` on a string field
OrElse(x, dflt) == IF x = Undefined THEN dflt ELSE x

\* TEMPLATES is an object literal: a key it does not own is looked up on
\* Object.prototype, whose members are functions, truthy and without a
\* subject or a priority
ObjectPrototypeKeys == {"constructor", "toString"}
InheritedMember == [subject |-> Undefined, priority |-> Undefined]

\* TEMPLATES[type] || TEMPLATES.bug_report
TemplateOf(type) ==
    IF type \in DOMAIN TEMPLATES THEN TEMPLATES[type]
    ELSE IF type \in ObjectPrototypeKeys THEN InheritedMember
    ELSE TEMPLATES["bug_report"]

formatTestFailure(data) ==
    [fmt |-> "Test Failure Detected", suite |-> "Unknown", failed |-> 0, passed |-> 0]

formatSecurityAlert(data) ==
    [fmt |-> "Security Alert",
     severity |-> "Unknown",
     issue |-> OrElse(data.issue, "Unknown issue"),
     components |-> "Unknown",
     action |-> "Review security logs"]

formatGenericData(data) == [fmt |-> "generic", json |-> data]

generateEmailBody(type, data) ==
    [type |-> type,
     content |-> CASE type = "test_failure" -> formatTestFailure(data)
                   [] type = "security_alert" -> formatSecurityAlert(data)
                   [] OTHER -> formatGenericData(data)]

XPriority(p) == IF p = "urgent" THEN "1" ELSE IF p = "high" THEN "2" ELSE "3"

\* emailData of sendNotification; id is the submission number (history only).
\* The X-Second-Chance-Timestamp header is left out: nothing reads it.
EmailData(id, type, data) ==
    [id |-> id,
     from |-> EMAIL_CONFIG.from,
     to |-> EMAIL_CONFIG.recipient,
     subject |-> <<EMAIL_CONFIG.subject_prefix, TemplateOf(type).subject>>,
     html |-> generateEmailBody(type, data),
     priority |-> TemplateOf(type).priority,
     xPriority |-> XPriority(TemplateOf(type).priority),
     xType |-> type]

(***************************************************************************)
(* History helpers.                                                        *)
(***************************************************************************)
Steps == {"shift", "sendMail", "sendOk", "sendFail", "logToFile", "writeOk", "logFail"}

\* the record of a sendNotification call: busy is isProcessing at the call,
\* waiting the length of the queue at the call
SubmitRec(busy, waiting, type, data, email) ==
    [busy |-> busy, waiting |-> waiting, type |-> type, data |-> data, email |-> email]

\* c with one more step k counted for message id
Bump(c, k, id) == [c EXCEPT ![id][k] = @ + 1]

Count(k, id) == cnt[id][k]

\* the record of call i
SubmitOf(i) == subs[i]

Submitted == {i \in Calls : pc[i] # "none"}

Awaiting == {"sendMail", "elseMkdir", "elseWrite", "catchMkdir", "catchWrite"}

\* the calls whose processQueue loop is suspended at an await
Draining == {i \in Calls : pc[i] \in Awaiting}

(***************************************************************************)
(* EmailNotificationService                                                *)
(***************************************************************************)
InitDispatcher ==
    /\ transporter = "null"
    /\ queue = <<>>
    /\ isProcessing = FALSE
    /\ pc = [i \in Calls |-> "none"]
    /\ cur = [i \in Calls |-> NoEmail]
    /\ fname = [i \in Calls |-> NoName]
    /\ files = <<>>
    /\ clock = 0
    /\ subs = <<>>
    /\ handed = <<>>
    /\ cnt = [i \in Calls |-> [k \in Steps |-> 0]]

\* initialize(): the transporter is assigned before verify() is awaited, so
\* it is set whether verification succeeds or not.
Initialize ==
    /\ transporter = "null"
    /\ transporter' = "smtp"
    /\ UNCHANGED <<queue, isProcessing, pc, cur, fname, files, clock, hvars, cvars, mvars, gvars, tvars>>

\* mutant of Enqueue: unshift instead of push
EnqueueAtFront(q, e) == <<e>> \o q

\* this.queue.push(emailData)
Enqueue(q, e) == Append(q, e)

\* if (!this.isProcessing) await this.processQueue()
NotProcessing(busy) == ~busy

\* processQueue: if (this.queue.length === 0 || this.isProcessing) return
processQueueEntry(q, busy) == ~(Len(q) = 0 \/ busy)

\* mutant of BusyOnEntry: the flag is not raised
BusyNotRaised == FALSE

\* processQueue: this.isProcessing = true
BusyOnEntry == TRUE

\* mutant of FallbackFileName: keyed by the template's priority, not the type
FallbackFileNameByPriority(now, email) == <<now, email.priority, "json">>

\* the file name of logToFile: the ISO time of the write and the type header
FallbackFileName(now, email) == <<now, email.xType, "json">>

\* the JSON written by logToFile: the email, a timestamp, the status marker
FallbackRecord(now, email) ==
    [email |-> email, timestamp |-> now, status |-> "queued_for_manual_send"]

\* fs.writeFile: creates the file or replaces its content
WriteFile(fs, name, content) ==
    [n \in (DOMAIN fs) \cup {name} |-> IF n = name THEN content ELSE fs[n]]

\* One iteration of `while (this.queue.length > 0)` up to its first await,
\* or the end of processQueue.  q, c, busy: queue, step counts and flag so far.
LoopTop(i, q, c, busy) ==
    IF Len(q) > 0
    THEN /\ queue' = Tail(q)
         /\ cur' = [cur EXCEPT ![i] = Head(q)]
         /\ isProcessing' = busy
         /\ handed' = IF \E n \in 1..Len(handed) : handed[n] = Head(q).id
                      THEN handed ELSE Append(handed, Head(q).id)
         /\ IF transporter' # "null"
            THEN /\ pc' = [pc EXCEPT ![i] = "sendMail"]
                 /\ cnt' = Bump(Bump(c, "shift", Head(q).id), "sendMail", Head(q).id)
            ELSE /\ pc' = [pc EXCEPT ![i] = "elseMkdir"]
                 /\ cnt' = Bump(Bump(c, "shift", Head(q).id), "logToFile", Head(q).id)
    ELSE /\ queue' = q
         /\ cur' = cur
         /\ isProcessing' = FALSE
         /\ pc' = [pc EXCEPT ![i] = "returned"]
         /\ cnt' = c
         /\ handed' = handed

\* sendNotification(type, data), up to its first await or its return
sendNotification(type, data) ==
    LET i == Cardinality(Submitted) + 1
        emailData == EmailData(i, type, data)
        q1 == Enqueue(queue, emailData)
    IN /\ i \in Calls
       /\ subs' = Append(subs, SubmitRec(isProcessing, Len(queue), type, data, emailData))
       /\ UNCHANGED <<transporter, fname, files, clock, cvars, mvars, gvars, tvars>>
       /\ IF NotProcessing(isProcessing) /\ processQueueEntry(q1, isProcessing)
          THEN LoopTop(i, q1, cnt, BusyOnEntry)
          ELSE /\ queue' = q1
               /\ pc' = [pc EXCEPT ![i] = "returned"]
               /\ UNCHANGED <<isProcessing, cur, cnt, handed>>

\* transporter.sendMail resolves
SendMailOk(i) ==
    /\ pc[i] = "sendMail"
    /\ UNCHANGED <<transporter, fname, files, clock, subs, cvars, mvars, gvars, tvars>>
    /\ LoopTop(i, queue, Bump(cnt, "sendOk", cur[i].id), isProcessing)

\* transporter.sendMail rejects: catch, then logToFile(email)
SendMailFail(i) ==
    /\ pc[i] = "sendMail"
    /\ pc' = [pc EXCEPT ![i] = "catchMkdir"]
    /\ cnt' = Bump(Bump(cnt, "sendFail", cur[i].id), "logToFile", cur[i].id)
    /\ UNCHANGED <<transporter, queue, isProcessing, cur, fname, files, clock,
                   subs, handed, cvars, mvars, gvars, tvars>>

\* logToFile: fs.mkdir resolves; new Date() is read (now: a time not before
\* the last one read), the file name is built and writeFile called
MkdirOk(i, now) ==
    /\ pc[i] \in {"elseMkdir", "catchMkdir"}
    /\ now >= clock
    /\ clock' = now
    /\ fname' = [fname EXCEPT ![i] = FallbackFileName(now, cur[i])]
    /\ pc' = [pc EXCEPT ![i] = IF pc[i] = "elseMkdir" THEN "elseWrite" ELSE "catchWrite"]
    /\ UNCHANGED <<transporter, queue, isProcessing, cur, files, hvars, cvars, mvars, gvars, tvars>>

\* logToFile: fs.writeFile resolves
WriteOk(i) ==
    /\ pc[i] \in {"elseWrite", "catchWrite"}
    /\ files' = WriteFile(files, fname[i], FallbackRecord(fname[i][1], cur[i]))
    /\ UNCHANGED <<transporter, fname, clock, subs, cvars, mvars, gvars, tvars>>
    /\ LoopTop(i, queue, Bump(cnt, "writeOk", cur[i].id), isProcessing)

\* logToFile called in the try block rejects (mkdir or writeFile): the catch
\* block calls logToFile(email) again
ElseLogFail(i) ==
    /\ pc[i] \in {"elseMkdir", "elseWrite"}
    /\ pc' = [pc EXCEPT ![i] = "catchMkdir"]
    /\ cnt' = Bump(Bump(cnt, "logFail", cur[i].id), "logToFile", cur[i].id)
    /\ UNCHANGED <<transporter, queue, isProcessing, cur, fname, files, clock,
                   subs, handed, cvars, mvars, gvars, tvars>>

\* mutant of FlagAfterThrow: the flag is reset on the way out
FlagResetOnThrow(busy) == FALSE

\* the throw leaves processQueue before `this.isProcessing = false`: the
\* flag keeps the value it has
FlagAfterThrow(busy) == busy

\* logToFile called in the catch block rejects: processQueue rejects, and
\* with it the sendNotification that awaits it; isProcessing is not reset
CatchLogFail(i) ==
    /\ pc[i] \in {"catchMkdir", "catchWrite"}
    /\ pc' = [pc EXCEPT ![i] = "rejected"]
    /\ cnt' = Bump(cnt, "logFail", cur[i].id)
    /\ isProcessing' = FlagAfterThrow(isProcessing)
    /\ UNCHANGED <<transporter, queue, cur, fname, files, clock,
                   subs, handed, cvars, mvars, gvars, tvars>>

Next ==
    \/ Initialize
    \/ \E in \in Inputs : sendNotification(in[1], in[2])
    \/ \E i \in Calls : SendMailOk(i)
    \/ \E i \in Calls : SendMailFail(i)
    \/ \E i \in Calls, now \in 0..MaxClock : MkdirOk(i, now)
    \/ \E i \in Calls : WriteOk(i)
    \/ \E i \in Calls : ElseLogFail(i)
    \/ \E i \in Calls : CatchLogFail(i)

InitClassifierIdle ==
    /\ failure = Undefined
    /\ priority = Undefined
    /\ category = Undefined
    /\ lastIndex = NeverSearched

\* new EmailBugMonitor(), connected, before its first poll
InitMonitor ==
    /\ mpc = "idle"
    /\ logged = NoError
    /\ outcome = "pending"
    /\ batch = <<>>
    /\ mst = <<>>
    /\ bugReport = <<>>
    /\ mfiles = <<>>
    /\ bugReports = EmptyBag
    /\ notes = EmptyBag

\* new TodoGenerator(), before any generate operation
InitGenerator ==
    /\ gop = NoOp
    /\ gpc = "idle"
    /\ gtodo = NoTodo
    /\ todos = <<>>
    /\ gfiles = <<>>
    /\ sent = <<>>
    /\ stats = NoStats

\* new SyntheticUserTests()
InitTests ==
    /\ browser = "null"
    /\ results = <<>>
    /\ criticalFailures = <<>>
    /\ tpc = "idle"
    /\ tnum = 0
    /\ trace = <<>>
    /\ emergencyLog = 0
    /\ suiteError = FALSE

Init ==
    InitDispatcher /\ InitClassifierIdle /\ InitMonitor /\ InitGenerator /\ InitTests

Spec == Init /\ [][Next]_vars

(***************************************************************************)
(* TodoGenerator: classification of a failure.                             *)
(*                                                                         *)
(* A string is a sequence of words; a regular expression that looks for a  *)
(* term is a search for that word, and `a.*b` is a search for the word a   *)
(* followed, anywhere later, by the word b.                                *)
(***************************************************************************)
\* the longest `message` of a failure, in words
MaxWords == 2

Words == {"Crisis", "security", "timeout", "memory", "leak", "build", "fail"}

\* String.prototype.toLowerCase, word by word
LowerWord(w) ==
    CASE w = "Crisis" -> "crisis"
      [] w = "Urgent" -> "urgent"
      [] w = "No" -> "no"
      [] w = "Hotline" -> "hotline"
      [] w = "Access" -> "access"
      [] w = "Offline" -> "offline"
      [] w = "Resources" -> "resources"
      [] w = "User" -> "user"
      [] w = "Login" -> "login"
      [] w = "Admin" -> "admin"
      [] w = "Request" -> "request"
      [] w = "Recovery" -> "recovery"
      [] w = "Tracking" -> "tracking"
      [] w = "App" -> "app"
      [] w = "Monitoring" -> "monitoring"
      [] w = "Performance" -> "performance"
      [] w = "LCP" -> "lcp"
      [] OTHER -> w

toLowerCase(t) == [n \in 1..Len(t) |-> LowerWord(t[n])]

StringsUpTo(n) == UNION {[1..k -> Words] : k \in 0..n}

\* a text field that is absent (undefined); no string is equal to it
NoText == <<"(undefined)">>

\* a field of a failure interpolated in a template literal: undefined is
\* rendered as the word undefined
Interpolate(x) == IF x = NoText THEN <<"undefined">> ELSE x

HasAny(t, terms) == \E n \in 1..Len(t) : t[n] \in terms

Follows(t, a, b) == \E m, n \in 1..Len(t) : m < n /\ t[m] = a /\ t[n] = b

Min(S) == CHOOSE x \in S : \A y \in S : x <= y
Max(S) == CHOOSE x \in S : \A y \in S : y <= x

\* mutant of PatternIsGlobal: the patterns carry the g flag
PatternIsGlobalSet == TRUE

\* the flags of the patterns of this.failurePatterns are `i` only: none is
\* global or sticky, so RegExp.prototype.test ignores and keeps lastIndex
PatternIsGlobal == FALSE

\* where regex.test starts its search in the text
SearchFrom(p) == IF PatternIsGlobal THEN lastIndex[p] ELSE 0

\* the positions after `from` where a match of term1|term2|...|a.*b|... starts
MatchStarts(t, terms, pairs, from) ==
    {n \in (from + 1)..Len(t) :
        \/ t[n] \in terms
        \/ \E pr \in pairs : t[n] = pr[1] /\ \E k \in (n + 1)..Len(t) : t[k] = pr[2]}

\* where the leftmost match ends: a term ends where it starts, a.*b is greedy
MatchEnd(t, terms, pairs, from) ==
    LET s == Min(MatchStarts(t, terms, pairs, from))
    IN IF t[s] \in terms THEN s
       ELSE Max({k \in (s + 1)..Len(t) : \E pr \in pairs : t[s] = pr[1] /\ t[k] = pr[2]})

\* regex.test(t) of a pattern whose search starts after `from`
RegExpTest(t, terms, pairs, from) == MatchStarts(t, terms, pairs, from) # {}

\* regex.lastIndex after regex.test(t)
RegExpLastIndex(t, terms, pairs, from, old) ==
    IF ~PatternIsGlobal THEN old
    ELSE IF RegExpTest(t, terms, pairs, from) THEN MatchEnd(t, terms, pairs, from)
    ELSE 0

\* this.failurePatterns
CrisisTerms == {"crisis", "988", "741741", "emergency", "hotline"}
SecurityTerms == {"security", "vulnerability", "exploit", "unsafe"}
PerformanceTerms == {"timeout", "slow", "performance"}

PerformancePairs == {<<"memory", "leak">>}
BuildPairs == {<<"build", "fail">>, <<"compilation", "error">>, <<"bundle", "fail">>}

PatternTerms(p) ==
    CASE p = "crisis" -> CrisisTerms
      [] p = "security" -> SecurityTerms
      [] p = "performance" -> PerformanceTerms
      [] p = "build" -> {}

PatternPairs(p) ==
    CASE p = "crisis" -> {}
      [] p = "security" -> {}
      [] p = "performance" -> PerformancePairs
      [] p = "build" -> BuildPairs

\* this.failurePatterns[p].test(t)
failurePatterns_test(p, t) ==
    RegExpTest(t, PatternTerms(p), PatternPairs(p), SearchFrom(p))

failurePatterns_crisis(t) == failurePatterns_test("crisis", t)

failurePatterns_security(t) == failurePatterns_test("security", t)

failurePatterns_performance(t) == failurePatterns_test("performance", t)

failurePatterns_build(t) == failurePatterns_test("build", t)

\* the lastIndex of every pattern after the patterns of `tested` ran on t
AfterTests(tested, t) ==
    [p \in PatternNames |->
        IF p \in tested
        THEN RegExpLastIndex(t, PatternTerms(p), PatternPairs(p), SearchFrom(p), lastIndex[p])
        ELSE lastIndex[p]]

\* `${failure.error} ${failure.message}`.toLowerCase()
PriorityText(f) == toLowerCase(Interpolate(f.error) \o Interpolate(f.message))

\* `${failure.error} ${failure.message} ${failure.name}`.toLowerCase()
CategoryText(f) ==
    toLowerCase(Interpolate(f.error) \o Interpolate(f.message) \o Interpolate(f.name))

\* mutant of determinePriority: the severity/blocking flags are checked first
determinePrioritySeverityFirst(f) ==
    IF f.severity = "critical" \/ f.blocking = TRUE THEN "high"
    ELSE IF failurePatterns_crisis(PriorityText(f)) THEN "critical"
    ELSE IF failurePatterns_security(PriorityText(f)) THEN "critical"
    ELSE IF failurePatterns_performance(PriorityText(f)) THEN "medium"
    ELSE "low"

\* mutant of determinePriority: the default is medium
determinePriorityDefaultMedium(f) ==
    IF failurePatterns_crisis(PriorityText(f)) THEN "critical"
    ELSE IF failurePatterns_security(PriorityText(f)) THEN "critical"
    ELSE IF f.severity = "critical" \/ f.blocking = TRUE THEN "high"
    ELSE "medium"

determinePriority(f) ==
    IF failurePatterns_crisis(PriorityText(f)) THEN "critical"
    ELSE IF failurePatterns_security(PriorityText(f)) THEN "critical"
    ELSE IF f.severity = "critical" \/ f.blocking = TRUE THEN "high"
    ELSE IF failurePatterns_performance(PriorityText(f)) THEN "medium"
    ELSE "low"

\* mutant of determineCategory: the performance check comes before the
\* security check
determineCategoryPerformanceFirst(f) ==
    IF failurePatterns_crisis(CategoryText(f)) THEN "crisis-system"
    ELSE IF failurePatterns_performance(CategoryText(f)) THEN "performance"
    ELSE IF failurePatterns_security(CategoryText(f)) THEN "security"
    ELSE IF failurePatterns_build(CategoryText(f)) THEN "build"
    ELSE "general"

determineCategory(f) ==
    IF failurePatterns_crisis(CategoryText(f)) THEN "crisis-system"
    ELSE IF failurePatterns_security(CategoryText(f)) THEN "security"
    ELSE IF failurePatterns_performance(CategoryText(f)) THEN "performance"
    ELSE IF failurePatterns_build(CategoryText(f)) THEN "build"
    ELSE "general"

\* the failures classified in this model; blocking = FALSE stands for a flag
\* that is absent or false
Failures ==
    [error : {NoText} \cup StringsUpTo(1),
     message : {NoText} \cup StringsUpTo(MaxWords),
     name : {NoText} \cup StringsUpTo(1),
     severity : {Undefined, "critical", "low"},
     blocking : BOOLEAN]

\* the patterns determinePriority runs before it returns
PriorityTests(f) ==
    IF failurePatterns_crisis(PriorityText(f)) THEN {"crisis"}
    ELSE IF failurePatterns_security(PriorityText(f)) THEN {"crisis", "security"}
    ELSE IF f.severity = "critical" \/ f.blocking = TRUE THEN {"crisis", "security"}
    ELSE {"crisis", "security", "performance"}

\* the patterns determineCategory runs before it returns
CategoryTests(f) ==
    IF failurePatterns_crisis(CategoryText(f)) THEN {"crisis"}
    ELSE IF failurePatterns_security(CategoryText(f)) THEN {"crisis", "security"}
    ELSE IF failurePatterns_performance(CategoryText(f))
         THEN {"crisis", "security", "performance"}
    ELSE PatternNames

\* a failure has been reported and nothing has been classified or sent yet
InitClassifier ==
    /\ failure \in Failures
    /\ priority = Undefined
    /\ category = Undefined
    /\ lastIndex = NeverSearched
    /\ InitDispatcher
    /\ InitMonitor
    /\ InitGenerator
    /\ InitTests

\* const priority = this.determinePriority(failure)
DeterminePriority ==
    /\ priority' = determinePriority(failure)
    /\ lastIndex' = AfterTests(PriorityTests(failure), PriorityText(failure))
    /\ UNCHANGED <<failure, category, dvars, mvars, gvars, tvars>>

\* const category = this.determineCategory(failure)
DetermineCategory ==
    /\ category' = determineCategory(failure)
    /\ lastIndex' = AfterTests(CategoryTests(failure), CategoryText(failure))
    /\ UNCHANGED <<failure, priority, dvars, mvars, gvars, tvars>>

NextClassifier ==
    \/ DeterminePriority
    \/ DetermineCategory

SpecClassifier == InitClassifier /\ [][NextClassifier]_vars

(***************************************************************************)
(* EmailBugMonitor: one poll of the inbox.                                 *)
(*                                                                         *)
(* An action is one run of a callback or of an async function up to its    *)
(* next await.  fs.mkdir keeps no state of the model: an fs step is the    *)
(* mkdir and the writeFile of one function, and its failure the rejection  *)
(* of either.  The id of a bug report is the number of its email.          *)
(***************************************************************************)
\* the most unread emails one search returns
MaxBatch == 2

\* MONITOR_CONFIG.patterns
MailBugTerms == {"bug", "issue", "problem", "error", "crash", "fail"}
MailCriticalTerms == {"critical", "urgent", "emergency", "crisis", "down"}
MailSecurityTerms == {"security", "vulnerability", "exploit", "breach"}
MailPerformanceTerms == {"slow", "lag", "freeze", "performance", "timeout"}

patterns_bug(t) == HasAny(t, MailBugTerms)
patterns_critical(t) == HasAny(t, MailCriticalTerms)
patterns_security(t) == HasAny(t, MailSecurityTerms)
patterns_performance(t) == HasAny(t, MailPerformanceTerms)

\* the emails simpleParser hands to processEmail: subject and text may be
\* absent; none has an html part
Subjects == {NoText, <<"Urgent">>}
Texts == {NoText, <<"slow", "bug">>, <<"bug", "security", "slow">>}
Emails == [subject : Subjects, text : Texts]
Batches == UNION {[1..n -> Emails] : n \in 0..MaxBatch}

\* email.subject || 'No subject'
SubjectOf(email) ==
    IF email.subject = NoText \/ email.subject = <<>>
    THEN <<"No", "subject">> ELSE email.subject

\* email.text || email.html || ''
BodyOf(email) == IF email.text = NoText THEN <<>> ELSE email.text

\* `${bugReport.subject} ${bugReport.body}`.toLowerCase()
ContentOf(email) == toLowerCase(SubjectOf(email) \o BodyOf(email))

\* generateBugId and `TODO-${bugReport.id}`
generateBugId(k) == k
TodoId(id) == <<"TODO", id>>

\* processEmail: the bugReport object after the if / else if chain
BugReportOf(id, email) ==
    LET content == ContentOf(email)
    IN [id |-> id,
        priority |-> IF patterns_critical(content) THEN "critical"
                     ELSE IF patterns_security(content) THEN "high"
                     ELSE "normal",
        category |-> IF patterns_critical(content) THEN "general"
                     ELSE IF patterns_security(content) THEN "security"
                     ELSE IF patterns_performance(content) THEN "performance"
                     ELSE "general"]

\* createTodoFromBug: the todo object
TodoOf(report) ==
    [id |-> TodoId(report.id), priority |-> report.priority,
     category |-> report.category, bugReportId |-> report.id]

\* sendAcknowledgment: the ack object
AckOf(report) ==
    [bugId |-> report.id, priority |-> report.priority, category |-> report.category]

\* the files of saveBugReport, createTodoFromBug and sendAcknowledgment
BugFile(id) == <<"bug-reports", id, "json">>
TodoFile(todoId, ext) == <<"todos", todoId, ext>>
AckFile(id) == <<"acknowledgments", id, "ack.json">>

\* the files createTodoFromBug writes for a todo
TodoFilesOf(todoId) == {TodoFile(todoId, "json")}

\* checkForBugReports: the catch block logs the error; the promise resolves
CatchOutcome == "resolved"

\* checkFolder rejected with error err, caught by checkForBugReports
Rejected(err) ==
    /\ mpc' = "returned"
    /\ logged' = err
    /\ outcome' = CatchOutcome

\* checkFolder resolved
Resolved ==
    /\ mpc' = "returned"
    /\ outcome' = "resolved"
    /\ UNCHANGED logged

\* mutant of ParseErrorRejects: the parser callback passes err to reject
ParseErrorRejectsPoll == TRUE

\* the parser callback on err: console.error and return, reject is not called
ParseErrorRejects == FALSE

\* checkForBugReports is called; checkFolder calls imap.openBox
CheckForBugReports ==
    /\ mpc = "idle"
    /\ mpc' = "openBox"
    /\ UNCHANGED <<logged, outcome, batch, mst, bugReport, mfiles, bugReports,
                   notes, dvars, cvars, gvars, tvars>>

\* the openBox callback without err: imap.search
OpenBoxOk ==
    /\ mpc = "openBox"
    /\ mpc' = "search"
    /\ UNCHANGED <<logged, outcome, batch, mst, bugReport, mfiles, bugReports,
                   notes, dvars, cvars, gvars, tvars>>

\* the openBox callback with err
OpenBoxErr ==
    /\ mpc = "openBox"
    /\ Rejected("openBox")
    /\ UNCHANGED <<batch, mst, bugReport, mfiles, bugReports, notes, dvars, cvars, gvars, tvars>>

\* the search callback without err: no result resolves, else imap.fetch
SearchOk(unseen) ==
    /\ mpc = "search"
    /\ IF Len(unseen) = 0
       THEN /\ Resolved
            /\ UNCHANGED <<batch, mst, bugReport>>
       ELSE /\ mpc' = "fetching"
            /\ batch' = unseen
            /\ mst' = [k \in 1..Len(unseen) |-> "parsing"]
            /\ bugReport' = [k \in 1..Len(unseen) |-> NoReport]
            /\ UNCHANGED <<logged, outcome>>
    /\ UNCHANGED <<mfiles, bugReports, notes, dvars, cvars, gvars, tvars>>

\* the search callback with err
SearchErr ==
    /\ mpc = "search"
    /\ Rejected("search")
    /\ UNCHANGED <<batch, mst, bugReport, mfiles, bugReports, notes, dvars, cvars, gvars, tvars>>

\* fetch 'end'
FetchEnd ==
    /\ mpc = "fetching"
    /\ Resolved
    /\ UNCHANGED <<batch, mst, bugReport, mfiles, bugReports, notes, dvars, cvars, gvars, tvars>>

\* fetch 'error'
FetchError ==
    /\ mpc = "fetching"
    /\ Rejected("fetch")
    /\ UNCHANGED <<batch, mst, bugReport, mfiles, bugReports, notes, dvars, cvars, gvars, tvars>>

\* the parser callback of email k with err
ParseErr(k) ==
    /\ k \in DOMAIN mst
    /\ mst[k] = "parsing"
    /\ mst' = [mst EXCEPT ![k] = "skipped"]
    /\ IF ParseErrorRejects /\ mpc = "fetching"
       THEN Rejected("parse")
       ELSE UNCHANGED <<mpc, logged, outcome>>
    /\ UNCHANGED <<batch, bugReport, mfiles, bugReports, notes, dvars, cvars, gvars, tvars>>

\* the parser callback of email k without err: processEmail up to its first
\* await (saveBugReport), or to its end when the email is no bug report
ParseOk(k) ==
    /\ k \in DOMAIN mst
    /\ mst[k] = "parsing"
    /\ bugReport' = [bugReport EXCEPT ![k] = BugReportOf(generateBugId(k), batch[k])]
    /\ mst' = [mst EXCEPT ![k] = IF patterns_bug(ContentOf(batch[k]))
                                 THEN "saveBugReport" ELSE "processed"]
    /\ UNCHANGED <<mpc, logged, outcome, batch, mfiles, bugReports, notes,
                   dvars, cvars, gvars, tvars>>

\* saveBugReport wrote its file: this.bugReports.push, then createTodoFromBug
SaveBugReportOk(k) ==
    /\ k \in DOMAIN mst
    /\ mst[k] = "saveBugReport"
    /\ mfiles' = WriteFile(mfiles, BugFile(bugReport[k].id), bugReport[k])
    /\ bugReports' = bugReports (+) SetToBag({bugReport[k].id})
    /\ mst' = [mst EXCEPT ![k] = "createTodo"]
    /\ UNCHANGED <<mpc, logged, outcome, batch, bugReport, notes, dvars, cvars, gvars, tvars>>

\* createTodoFromBug wrote its file: emailService.sendNotification is called
CreateTodoOk(k) ==
    /\ k \in DOMAIN mst
    /\ mst[k] = "createTodo"
    /\ mfiles' = [n \in (DOMAIN mfiles) \cup TodoFilesOf(TodoId(bugReport[k].id)) |->
                     IF n \in TodoFilesOf(TodoId(bugReport[k].id))
                     THEN TodoOf(bugReport[k]) ELSE mfiles[n]]
    /\ notes' = notes (+) SetToBag({bugReport[k].id})
    /\ mst' = [mst EXCEPT ![k] = "notify"]
    /\ UNCHANGED <<mpc, logged, outcome, batch, bugReport, bugReports, dvars, cvars, gvars, tvars>>

\* sendNotification resolved: sendAcknowledgment
NotifyOk(k) ==
    /\ k \in DOMAIN mst
    /\ mst[k] = "notify"
    /\ mst' = [mst EXCEPT ![k] = "sendAcknowledgment"]
    /\ UNCHANGED <<mpc, logged, outcome, batch, bugReport, mfiles, bugReports,
                   notes, dvars, cvars, gvars, tvars>>

\* sendAcknowledgment wrote its file: processEmail ends
SendAcknowledgmentOk(k) ==
    /\ k \in DOMAIN mst
    /\ mst[k] = "sendAcknowledgment"
    /\ mfiles' = WriteFile(mfiles, AckFile(bugReport[k].id), AckOf(bugReport[k]))
    /\ mst' = [mst EXCEPT ![k] = "processed"]
    /\ UNCHANGED <<mpc, logged, outcome, batch, bugReport, bugReports, notes,
                   dvars, cvars, gvars, tvars>>

\* an await of processEmail rejects (mkdir, writeFile or sendNotification):
\* the async parser callback rejects, and nobody handles it
ProcessEmailThrows(k) ==
    /\ k \in DOMAIN mst
    /\ mst[k] \in {"saveBugReport", "createTodo", "notify", "sendAcknowledgment"}
    /\ mst' = [mst EXCEPT ![k] = "threw"]
    /\ UNCHANGED <<mpc, logged, outcome, batch, bugReport, mfiles, bugReports,
                   notes, dvars, cvars, gvars, tvars>>

NextMonitor ==
    \/ CheckForBugReports
    \/ OpenBoxOk
    \/ OpenBoxErr
    \/ \E unseen \in Batches : SearchOk(unseen)
    \/ SearchErr
    \/ FetchEnd
    \/ FetchError
    \/ \E k \in 1..MaxBatch : ParseErr(k)
    \/ \E k \in 1..MaxBatch : ParseOk(k)
    \/ \E k \in 1..MaxBatch : SaveBugReportOk(k)
    \/ \E k \in 1..MaxBatch : CreateTodoOk(k)
    \/ \E k \in 1..MaxBatch : NotifyOk(k)
    \/ \E k \in 1..MaxBatch : SendAcknowledgmentOk(k)
    \/ \E k \in 1..MaxBatch : ProcessEmailThrows(k)

SpecMonitor == Init /\ [][NextMonitor]_vars

(***************************************************************************)
(* TodoGenerator: the generate operations.                                 *)
(*                                                                         *)
(* One operation runs at a time.  An id is its prefix and the number of    *)
(* the TODO within the operation (the source uses the time and a random    *)
(* part).  Times are in hours, and the operation runs at time 0.           *)
(***************************************************************************)
\* the most failures one test result carries
MaxFailures == 2

generateTodoId(prefix, n) == <<prefix, n>>

\* calculateDeadline: the deadlines table, in hours
deadlines == [critical |-> 1, high |-> 24, medium |-> 72, low |-> 168]

calculateDeadline(now, severity) ==
    now + (IF severity \in DOMAIN deadlines THEN deadlines[severity]
           ELSE deadlines["medium"])

\* a todo without a deadline field, and with one
NoDeadline == <<>>
DeadlineAt(t) == <<t>>

\* the todo objects of the five operations
TestTodo(f, n) ==
    [id |-> generateTodoId("TEST", n), priority |-> determinePriority(f),
     category |-> determineCategory(f), source |-> "test-failure",
     deadline |-> NoDeadline]

BuildTodo ==
    [id |-> generateTodoId("BUILD", 1), priority |-> "high", category |-> "build",
     source |-> "build-failure", deadline |-> NoDeadline]

SecurityTodo(severity) ==
    [id |-> generateTodoId("SEC", 1), priority |-> "critical", category |-> "security",
     source |-> "security-scan",
     deadline |-> DeadlineAt(calculateDeadline(0, severity))]

PerformanceTodo(severity) ==
    [id |-> generateTodoId("PERF", 1),
     priority |-> IF severity = "critical" THEN "high" ELSE "medium",
     category |-> "performance", source |-> "performance-monitoring",
     deadline |-> NoDeadline]

CrisisTodo ==
    [id |-> generateTodoId("CRISIS", 1), priority |-> "critical",
     category |-> "crisis-system", source |-> "crisis-monitoring",
     deadline |-> DeadlineAt(deadlines["critical"])]

\* generateMarkdown(todo)
generateMarkdown(todo) ==
    [markdown |-> TRUE, id |-> todo.id, priority |-> todo.priority,
     category |-> todo.category, deadline |-> todo.deadline]

\* the two files of saveTodo
JsonFile(id) == <<id, "json">>
MdFile(id) == <<id, "md">>

\* emailService.sendNotification(type, ...) called by `by`
Submit(log, type, by) == Append(log, [type |-> type, by |-> by])

\* the notification an operation submits after saveTodo
NotificationOf(kind) ==
    CASE kind = "build" -> "build_failure"
      [] kind = "security" -> "security_alert"
      [] kind = "crisis" -> "crisis_system_error"

\* testResult.failures is absent
NoFailures == <<[undefined |-> TRUE]>>

\* testResult.failures || []
failuresOrEmpty(testResult) ==
    IF testResult.failures = NoFailures THEN <<>> ELSE testResult.failures

\* todos.filter(t => t.priority === 'critical' || t.priority === 'high')
highPriorityTodos(ts) == SelectSeq(ts, LAMBDA t : t.priority \in {"critical", "high"})

\* mutant of NotifiesAfterLoop: one notification whatever the priorities
NotifiesAlways(ts) == TRUE

\* if (highPriorityTodos.length > 0)
NotifiesAfterLoop(ts) == Len(highPriorityTodos(ts)) > 0

\* generateFromTestFailure: the head of the for loop with ts saved so far,
\* up to the next await or the return
TestLoop(op, ts, log) ==
    /\ todos' = ts
    /\ IF Len(ts) < Len(op.failures)
       THEN /\ gtodo' = TestTodo(op.failures[Len(ts) + 1], Len(ts) + 1)
            /\ gpc' = "saveJson"
            /\ sent' = log
       ELSE /\ gtodo' = gtodo
            /\ IF NotifiesAfterLoop(ts)
               THEN /\ sent' = Submit(log, "test_failure", "generator")
                    /\ gpc' = "notify"
               ELSE /\ sent' = log
                    /\ gpc' = "returned"

\* the generate operations, up to their first await
StartTestFailure(testResult) ==
    /\ gop' = [kind |-> "test", failures |-> failuresOrEmpty(testResult)]
    /\ TestLoop(gop', <<>>, sent)
    /\ UNCHANGED gfiles

\* mutant of StartSingle: the notification is submitted before saveTodo
StartSingleNotifyFirst(kind, todo) ==
    /\ gop' = [kind |-> kind, failures |-> <<>>]
    /\ gtodo' = todo
    /\ gpc' = "saveJson"
    /\ todos' = <<>>
    /\ sent' = IF kind = "performance" THEN sent
               ELSE Submit(sent, NotificationOf(kind), "generator")
    /\ UNCHANGED gfiles

StartSingle(kind, todo) ==
    /\ gop' = [kind |-> kind, failures |-> <<>>]
    /\ gtodo' = todo
    /\ gpc' = "saveJson"
    /\ todos' = <<>>
    /\ UNCHANGED <<gfiles, sent>>

\* the failures a caller reports in this model
TestFailures ==
    {[error |-> <<"Crisis">>, message |-> NoText, name |-> <<"fail">>,
      severity |-> Undefined, blocking |-> FALSE],
     [error |-> <<"timeout">>, message |-> NoText, name |-> NoText,
      severity |-> Undefined, blocking |-> FALSE],
     [error |-> <<"fail">>, message |-> NoText, name |-> NoText,
      severity |-> "critical", blocking |-> FALSE]}

TestResults ==
    {[failures |-> NoFailures]}
        \cup {[failures |-> fs] : fs \in UNION {[1..n -> TestFailures] : n \in 0..MaxFailures}}

Severities == {Undefined, "critical", "low"}

generateFromTestFailure(testResult) ==
    /\ gpc = "idle"
    /\ StartTestFailure(testResult)
    /\ UNCHANGED <<stats, dvars, cvars, mvars, tvars>>

generateFromBuildFailure ==
    /\ gpc = "idle"
    /\ StartSingle("build", BuildTodo)
    /\ UNCHANGED <<stats, dvars, cvars, mvars, tvars>>

generateFromSecurityIssue(severity) ==
    /\ gpc = "idle"
    /\ StartSingle("security", SecurityTodo(severity))
    /\ UNCHANGED <<stats, dvars, cvars, mvars, tvars>>

generateFromPerformanceIssue(severity) ==
    /\ gpc = "idle"
    /\ StartSingle("performance", PerformanceTodo(severity))
    /\ UNCHANGED <<stats, dvars, cvars, mvars, tvars>>

generateFromCrisisSystemFailure ==
    /\ gpc = "idle"
    /\ StartSingle("crisis", CrisisTodo)
    /\ UNCHANGED <<stats, dvars, cvars, mvars, tvars>>

\* saveTodo: the writeFile of the JSON file resolved; the Markdown is written
SaveJsonOk ==
    /\ gpc = "saveJson"
    /\ gfiles' = WriteFile(gfiles, JsonFile(gtodo.id), gtodo)
    /\ gpc' = "saveMd"
    /\ UNCHANGED <<gop, gtodo, todos, sent, stats, dvars, cvars, mvars, tvars>>

\* saveTodo: the writeFile of the Markdown file resolved, saveTodo returns;
\* the operation goes on to its notification, its next failure or its return
SaveMdOk ==
    /\ gpc = "saveMd"
    /\ gfiles' = WriteFile(gfiles, MdFile(gtodo.id), generateMarkdown(gtodo))
    /\ gop' = gop
    /\ IF gop.kind = "test"
       THEN TestLoop(gop, Append(todos, gtodo), sent)
       ELSE /\ todos' = Append(todos, gtodo)
            /\ gtodo' = gtodo
            /\ IF gop.kind = "performance"
               THEN /\ gpc' = "returned"
                    /\ sent' = sent
               ELSE /\ gpc' = "notify"
                    /\ sent' = Submit(sent, NotificationOf(gop.kind), "generator")
    /\ UNCHANGED <<stats, dvars, cvars, mvars, tvars>>

\* saveTodo: a writeFile rejected; the operation rejects
SaveTodoThrows ==
    /\ gpc \in {"saveJson", "saveMd"}
    /\ gpc' = "threw"
    /\ UNCHANGED <<gop, gtodo, todos, gfiles, sent, stats, dvars, cvars, mvars, tvars>>

\* the awaited sendNotification resolved: the operation returns
GeneratorNotifyOk ==
    /\ gpc = "notify"
    /\ gpc' = "returned"
    /\ UNCHANGED <<gop, gtodo, todos, gfiles, sent, stats, dvars, cvars, mvars, tvars>>

\* the awaited sendNotification rejected (its drain threw): the operation
\* rejects
GeneratorNotifyThrows ==
    /\ gpc = "notify"
    /\ gpc' = "threw"
    /\ UNCHANGED <<gop, gtodo, todos, gfiles, sent, stats, dvars, cvars, mvars, tvars>>

\* getAllTodos: the parsed content of every .json file of the directory
getAllTodos(fs) == {n \in DOMAIN fs : n[2] = "json"}

\* mutant of IsOverdue: an absent deadline counts as overdue
IsOverdueOrUndated(todo, now) == todo.deadline = NoDeadline \/ todo.deadline[1] < now

\* todo.deadline && new Date(todo.deadline).getTime() < now
IsOverdue(todo, now) == todo.deadline # NoDeadline /\ todo.deadline[1] < now

\* getStatistics on the directory fs at time now; every todo is pending
getStatistics(fs, now) ==
    LET all == getAllTodos(fs)
        CountBy(field) ==
            [v \in {fs[n][field] : n \in all} |->
                Cardinality({n \in all : fs[n][field] = v})]
    IN [total |-> Cardinality(all),
        byStatus |-> IF all = {} THEN <<>> ELSE [pending |-> Cardinality(all)],
        byPriority |-> CountBy("priority"),
        byCategory |-> CountBy("category"),
        overdue |-> Cardinality({n \in all : IsOverdue(fs[n], now)}),
        critical |-> Cardinality({n \in all : fs[n].priority = "critical"})]

\* the times at which statistics are asked for, in hours
Times == {0, 2}

\* getStatistics() is called at time now: the call, the directory it read
\* and what it returned
GetStatistics(now) ==
    /\ stats' = [asked |-> TRUE, now |-> now, store |-> gfiles,
                 result |-> getStatistics(gfiles, now)]
    /\ UNCHANGED <<gop, gpc, gtodo, todos, gfiles, sent, dvars, cvars, mvars, tvars>>

NextGenerator ==
    \/ \E testResult \in TestResults : generateFromTestFailure(testResult)
    \/ generateFromBuildFailure
    \/ \E severity \in Severities : generateFromSecurityIssue(severity)
    \/ \E severity \in Severities : generateFromPerformanceIssue(severity)
    \/ generateFromCrisisSystemFailure
    \/ SaveJsonOk
    \/ SaveMdOk
    \/ SaveTodoThrows
    \/ GeneratorNotifyOk
    \/ GeneratorNotifyThrows
    \/ \E now \in Times : GetStatistics(now)

SpecGenerator == Init /\ [][NextGenerator]_vars

(***************************************************************************)
(* SyntheticUserTests: runAllTests, the seven tests, the escalation of a   *)
(* crisis failure and the finalisation steps.  Each action is one          *)
(* synchronous segment of runAllTests; the calls into the TODO generator   *)
(* run through the generator's own actions.                                *)
(***************************************************************************)
\* the seven tests of runAllTests, in the order of the calls: the test name,
\* the message of an error the test throws, the critical flag its catch
\* block passes to recordFailure, and whether the catch block escalates
Tests ==
    <<[name |-> <<"Crisis", "Hotline", "Access">>,
       error |-> <<"Crisis", "phone", "links", "not", "functional">>,
       critical |-> TRUE, escalates |-> TRUE],
      [name |-> <<"Offline", "Crisis", "Resources">>,
       error |-> <<"Crisis", "resources", "not", "available", "offline">>,
       critical |-> TRUE, escalates |-> FALSE],
      [name |-> <<"User", "Login">>,
       error |-> <<"Login", "flow", "not", "working">>,
       critical |-> FALSE, escalates |-> FALSE],
      [name |-> <<"Admin", "Request">>,
       error |-> <<"Navigation", "timeout">>,
       critical |-> FALSE, escalates |-> FALSE],
      [name |-> <<"Recovery", "Tracking">>,
       error |-> <<"Recovery", "tracking", "features", "not", "found">>,
       critical |-> FALSE, escalates |-> FALSE],
      [name |-> <<"App", "Monitoring">>,
       error |-> <<"App", "monitoring", "features", "not", "displayed">>,
       critical |-> FALSE, escalates |-> FALSE],
      [name |-> <<"Performance">>,
       error |-> <<"LCP", "exceeds", "threshold">>,
       critical |-> FALSE, escalates |-> FALSE]>>

\* the entries recordSuccess and recordFailure push
Success(k) == [test |-> Tests[k].name, status |-> "passed"]
Failure(k) ==
    [test |-> Tests[k].name, status |-> "failed", error |-> Tests[k].error,
     critical |-> Tests[k].critical]

\* this.results.filter(r => r.status === 'failed')
Failed(rs) == SelectSeq(rs, LAMBDA r : r.status = "failed")

\* handleFailures: failures.map(f => ({name, error, severity}))
MappedFailure(f) ==
    [name |-> f.test, error |-> f.error, message |-> NoText,
     severity |-> IF f.critical THEN "critical" ELSE "normal", blocking |-> FALSE]

MappedFailures(rs) == [n \in 1..Len(Failed(rs)) |-> MappedFailure(Failed(rs)[n])]

\* sendTestResults: the type of the notification
sendTestResultsType(failed) == IF failed > 0 THEN "test_failure" ELSE "test_results"

\* mutant of ResetList: the list of the run before is kept
KeepList(old) == old

\* this.results = []; this.criticalFailures = []
ResetList(old) == <<>>

\* mutant of CatchGoesTo: the error of the try block leaves runAllTests
CatchRethrows == "threw"

\* catch (error) { console.error(...) } finally { await this.cleanup(); ...
CatchGoesTo == "cleanup"

\* the catch block of runAllTests
SuiteCatch ==
    /\ suiteError' = TRUE
    /\ tpc' = CatchGoesTo

\* the test after test k, or the finally block after the last one
NextTest(k) ==
    IF k < Len(Tests)
    THEN /\ tnum' = k + 1
         /\ tpc' = "test"
    ELSE /\ tnum' = k
         /\ tpc' = "cleanup"

\* what a suite object holds when runAllTests is called: a new object, or
\* the object after a run whose crisis hotline test failed while no file
\* could be written
PreviousRuns ==
    {[browser |-> "null", results |-> <<>>, criticalFailures |-> <<>>],
     [browser |-> "closed", results |-> <<Failure(1)>>,
      criticalFailures |-> <<Failure(1)>>]}

InitSuite ==
    /\ InitDispatcher /\ InitClassifierIdle /\ InitMonitor /\ InitGenerator
    /\ \E prev \in PreviousRuns :
          /\ browser = prev.browser
          /\ results = prev.results
          /\ criticalFailures = prev.criticalFailures
    /\ tpc = "idle"
    /\ tnum = 0
    /\ trace = <<>>
    /\ emergencyLog = 0
    /\ suiteError = FALSE

\* runAllTests up to await this.initialize()
RunAllTests ==
    /\ tpc = "idle"
    /\ gpc = "idle"
    /\ results' = ResetList(results)
    /\ criticalFailures' = ResetList(criticalFailures)
    /\ tpc' = "initialize"
    /\ UNCHANGED <<browser, tnum, trace, emergencyLog, suiteError,
                   dvars, cvars, mvars, gvars>>

\* initialize resolved; the first test starts
InitializeOk ==
    /\ tpc = "initialize"
    /\ browser' = "launched"
    /\ tnum' = 1
    /\ tpc' = "test"
    /\ UNCHANGED <<results, criticalFailures, trace, emergencyLog, suiteError,
                   dvars, cvars, mvars, gvars>>

\* initialize threw, in puppeteer.launch or after it
InitializeThrows(launched) ==
    /\ tpc = "initialize"
    /\ browser' = IF launched THEN "launched" ELSE browser
    /\ SuiteCatch
    /\ UNCHANGED <<results, criticalFailures, tnum, trace, emergencyLog,
                   dvars, cvars, mvars, gvars>>

\* the try block of test tnum ended in recordSuccess
TestPasses ==
    /\ tpc = "test"
    /\ results' = Append(results, Success(tnum))
    /\ NextTest(tnum)
    /\ UNCHANGED <<browser, criticalFailures, trace, emergencyLog, suiteError,
                   dvars, cvars, mvars, gvars>>

\* the try block of test tnum threw: recordFailure, and for the crisis
\* hotline test escalateCrisisFailure up to the first await of saveTodo
TestFails ==
    /\ tpc = "test"
    /\ results' = Append(results, Failure(tnum))
    /\ criticalFailures' = IF Tests[tnum].critical
                           THEN Append(criticalFailures, Failure(tnum))
                           ELSE criticalFailures
    /\ IF Tests[tnum].escalates
       THEN /\ StartSingle("crisis", CrisisTodo)
            /\ tpc' = "escalate:todo"
            /\ tnum' = tnum
       ELSE /\ NextTest(tnum)
            /\ UNCHANGED <<gop, gpc, gtodo, todos, gfiles, sent>>
    /\ UNCHANGED <<browser, trace, emergencyLog, suiteError, stats,
                   dvars, cvars, mvars>>

\* escalateCrisisFailure: generateFromCrisisSystemFailure resolved; the
\* second alert is submitted with emailService.sendCrisisAlert
EscalateTodoReturned ==
    /\ tpc = "escalate:todo"
    /\ gpc = "returned"
    /\ gpc' = "idle"
    /\ sent' = Submit(sent, "crisis_system_error", "tests")
    /\ tpc' = "escalate:alert"
    /\ UNCHANGED <<browser, results, criticalFailures, tnum, trace, emergencyLog,
                   suiteError, gop, gtodo, todos, gfiles, stats,
                   dvars, cvars, mvars>>

\* escalateCrisisFailure: generateFromCrisisSystemFailure rejected; the test
\* rejects and runAllTests catches
EscalateTodoThrew ==
    /\ tpc = "escalate:todo"
    /\ gpc = "threw"
    /\ gpc' = "idle"
    /\ SuiteCatch
    /\ UNCHANGED <<browser, results, criticalFailures, tnum, trace, emergencyLog,
                   gop, gtodo, todos, gfiles, sent, stats, dvars, cvars, mvars>>

\* escalateCrisisFailure: sendCrisisAlert resolved; fs.appendFile is called
CrisisAlertOk ==
    /\ tpc = "escalate:alert"
    /\ tpc' = "escalate:log"
    /\ UNCHANGED <<browser, results, criticalFailures, tnum, trace, emergencyLog,
                   suiteError, dvars, cvars, mvars, gvars>>

\* escalateCrisisFailure: sendCrisisAlert rejected
CrisisAlertThrows ==
    /\ tpc = "escalate:alert"
    /\ SuiteCatch
    /\ UNCHANGED <<browser, results, criticalFailures, tnum, trace, emergencyLog,
                   dvars, cvars, mvars, gvars>>

\* escalateCrisisFailure: the entry is appended to the emergency log; the
\* second test starts
AppendLogOk ==
    /\ tpc = "escalate:log"
    /\ emergencyLog' = emergencyLog + 1
    /\ NextTest(tnum)
    /\ UNCHANGED <<browser, results, criticalFailures, trace, suiteError,
                   dvars, cvars, mvars, gvars>>

\* escalateCrisisFailure: fs.appendFile rejected
AppendLogThrows ==
    /\ tpc = "escalate:log"
    /\ SuiteCatch
    /\ UNCHANGED <<browser, results, criticalFailures, tnum, trace, emergencyLog,
                   dvars, cvars, mvars, gvars>>

\* cleanup: the browser, if any, is closed (an error of close is caught);
\* generateReport runs up to its fs.mkdir
CleanupDone ==
    /\ tpc = "cleanup"
    /\ browser' = IF browser = "null" THEN "null" ELSE "closed"
    /\ trace' = Append(trace, "cleanup")
    /\ tpc' = "generateReport"
    /\ UNCHANGED <<results, criticalFailures, tnum, emergencyLog, suiteError,
                   dvars, cvars, mvars, gvars>>

\* generateReport wrote the report; handleFailures runs up to its first
\* await, or returns on 'All tests passed!'
ReportOk ==
    /\ tpc = "generateReport"
    /\ IF Failed(results) = <<>>
       THEN /\ trace' = trace \o <<"generateReport", "handleFailures",
                                   "All tests passed!">>
            /\ tpc' = "returned"
            /\ UNCHANGED <<gop, gpc, gtodo, todos, gfiles, sent>>
       ELSE /\ trace' = trace \o <<"generateReport", "handleFailures">>
            /\ StartTestFailure([failures |-> MappedFailures(results)])
            /\ tpc' = "handleFailures:todos"
    /\ UNCHANGED <<browser, results, criticalFailures, tnum, emergencyLog,
                   suiteError, stats, dvars, cvars, mvars>>

\* generateReport: fs.mkdir or fs.writeFile rejected; runAllTests rejects
ReportThrows ==
    /\ tpc = "generateReport"
    /\ trace' = Append(trace, "generateReport")
    /\ tpc' = "threw"
    /\ UNCHANGED <<browser, results, criticalFailures, tnum, emergencyLog,
                   suiteError, dvars, cvars, mvars, gvars>>

\* handleFailures: generateFromTestFailure resolved; sendTestResults
HandleTodosReturned ==
    /\ tpc = "handleFailures:todos"
    /\ gpc = "returned"
    /\ gpc' = "idle"
    /\ sent' = Submit(sent, sendTestResultsType(Len(Failed(results))), "tests")
    /\ tpc' = "handleFailures:mail"
    /\ UNCHANGED <<browser, results, criticalFailures, tnum, trace, emergencyLog,
                   suiteError, gop, gtodo, todos, gfiles, stats,
                   dvars, cvars, mvars>>

\* handleFailures: generateFromTestFailure rejected; runAllTests rejects
HandleTodosThrew ==
    /\ tpc = "handleFailures:todos"
    /\ gpc = "threw"
    /\ gpc' = "idle"
    /\ tpc' = "threw"
    /\ UNCHANGED <<browser, results, criticalFailures, tnum, trace, emergencyLog,
                   suiteError, gop, gtodo, todos, gfiles, sent, stats,
                   dvars, cvars, mvars>>

\* handleFailures: sendTestResults resolved; runAllTests returns
TestResultsMailOk ==
    /\ tpc = "handleFailures:mail"
    /\ tpc' = "returned"
    /\ UNCHANGED <<browser, results, criticalFailures, tnum, trace, emergencyLog,
                   suiteError, dvars, cvars, mvars, gvars>>

\* handleFailures: sendTestResults rejected; runAllTests rejects
TestResultsMailThrows ==
    /\ tpc = "handleFailures:mail"
    /\ tpc' = "threw"
    /\ UNCHANGED <<browser, results, criticalFailures, tnum, trace, emergencyLog,
                   suiteError, dvars, cvars, mvars, gvars>>

NextTests ==
    \/ RunAllTests
    \/ InitializeOk
    \/ \E launched \in BOOLEAN : InitializeThrows(launched)
    \/ TestPasses
    \/ TestFails
    \/ EscalateTodoReturned
    \/ EscalateTodoThrew
    \/ CrisisAlertOk
    \/ CrisisAlertThrows
    \/ AppendLogOk
    \/ AppendLogThrows
    \/ CleanupDone
    \/ ReportOk
    \/ ReportThrows
    \/ HandleTodosReturned
    \/ HandleTodosThrew
    \/ TestResultsMailOk
    \/ TestResultsMailThrows
    \/ SaveJsonOk
    \/ SaveMdOk
    \/ SaveTodoThrows
    \/ GeneratorNotifyOk
    \/ GeneratorNotifyThrows

SpecTests == InitSuite /\ [][NextTests]_vars

(***************************************************************************)
(* Properties of the dispatcher.                                           *)
(***************************************************************************)
\* no processQueue loop is suspended at an await
Quiescent == Draining = {}

\* the queue has drained: the loop ended and reset the flag
Drained == Quiescent /\ ~isProcessing /\ queue = <<>>

\* no sendMail has succeeded: the transporter is null or every send failed
TransportDown == \A i \in Calls : Count("sendOk", i) = 0

\* deliveries of message id: successful sends plus fallback files written
Outcomes(id) == Count("sendOk", id) + Count("writeOk", id)

\* ids in the order in which they were first handed to sendMail or logToFile
Handed == handed

\* the step is a sendNotification call
IsSubmitStep == Cardinality(Submitted') = Cardinality(Submitted) + 1

\* C1: at most one processQueue drain loop is active at any time, and a
\* sendNotification that arrives while a drain is active only appends its
\* message to the queue: it starts no drain and disturbs none.
C1_SingleDrain ==
    /\ [](Cardinality(Draining) <= 1)
    /\ [][(IsSubmitStep /\ Draining # {}) =>
            /\ Draining' = Draining
            /\ \A i \in Draining : pc'[i] = pc[i] /\ cur'[i] = cur[i]
            /\ Len(queue') = Len(queue) + 1
            /\ SubSeq(queue', 1, Len(queue)) = queue
            /\ queue'[Len(queue')].id = Cardinality(Submitted')
            /\ isProcessing' = isProcessing]_vars

\* C1 witness: a drain is suspended, a later call has returned, and its
\* message waits in the queue.
C1_Witness ==
    /\ Draining = {1}
    /\ pc[2] = "returned"
    /\ SubmitOf(2).busy
    /\ Len(queue) = 1 /\ queue[1].id = 2

\* C2 (as claimed): every notification submitted while a drain is in
\* progress is delivered or persisted exactly once: never twice, and once no
\* loop is pending, not zero times.
C2_ExactlyOnce ==
    \A i \in Submitted :
        SubmitOf(i).busy =>
            /\ Outcomes(i) <= 1
            /\ Quiescent => Outcomes(i) = 1

\* C3 (as claimed): once every transport call and file operation has
\* returned, every accepted message has been sent or is in the fallback store.
C3_EveryMessageHasOutcome ==
    Quiescent => \A i \in Submitted : Outcomes(i) >= 1

\* the fallback store holds a file with message i's recipient, subject, body
HasFileOf(i) ==
    \E n \in DOMAIN files :
        /\ files[n].email.to = SubmitOf(i).email.to
        /\ files[n].email.subject = SubmitOf(i).email.subject
        /\ files[n].email.html = SubmitOf(i).email.html
        /\ files[n].email.id = i

\* C4 (as claimed): with the transport unavailable, once the queue has
\* drained the fallback store holds exactly one file per submitted message,
\* each with that message's recipient, subject and body.
C4_OneFilePerMessage ==
    (TransportDown /\ Drained) =>
        /\ Cardinality(DOMAIN files) = Cardinality(Submitted)
        /\ \A i \in Submitted : HasFileOf(i)

\* C5: messages are handed to delivery in the order in which sendNotification
\* appended them: the k-th message handed over is the k-th appended.
C5_FifoOrder == Handed = [k \in 1..Len(Handed) |-> k]

\* C5 witness: two messages were appended while the first was being
\* delivered, both waited in the queue, and all three have been handed over.
C5_Witness ==
    /\ Handed = <<1, 2, 3>>
    /\ SubmitOf(2).busy /\ SubmitOf(3).busy
    /\ SubmitOf(3).waiting = 1

\* C6 (as claimed): after a transport error for a message the drain does not
\* stop, the failed message is written to the fallback store, and every
\* message queued behind it is still attempted.
C6_TransportErrorContained ==
    \A i \in Submitted :
        Count("sendFail", i) > 0 =>
            /\ \A c \in Calls : ~(pc[c] = "rejected" /\ cur[c].id = i)
            /\ Quiescent =>
                  /\ Count("writeOk", i) = 1
                  /\ \A j \in Submitted : j > i => Count("shift", j) = 1

\* C7 (as claimed): nothing is retried: a message is taken from the queue
\* once, gets at most one sendMail call and at most one logToFile call, and
\* is never put back on the queue.
C7_NoRetry ==
    \A i \in Submitted :
        /\ Count("shift", i) <= 1
        /\ Count("sendMail", i) <= 1
        /\ Count("logToFile", i) <= 1
        /\ Count("shift", i) = 1 => \A n \in 1..Len(queue) : queue[n].id # i

\* C8 (as claimed): sendNotification accepts every message and its completion
\* never waits for a transport send or a fallback write.
C8_ReturnsImmediately ==
    /\ \A i \in Submitted :
          Count("shift", i) = 1 \/ \E n \in 1..Len(queue) : queue[n].id = i
    /\ \A i \in Calls : pc[i] \notin Awaiting

Mentions(f, terms) ==
    \E fld \in {"error", "message", "name"} :
        /\ f[fld] # NoText
        /\ \E n \in 1..Len(f[fld]) : LowerWord(f[fld][n]) \in terms

\* C10: determineCategory returns the category of the first matching pattern
\* in the order crisis, security, performance, build, and general when none
\* matches; text with a crisis term and a security term is crisis-system, and
\* text with a security term and a performance term and no crisis term is
\* security.
C10_CategoryOrder ==
    category # Undefined =>
        LET t == CategoryText(failure)
            c == failurePatterns_crisis(t)
            s == failurePatterns_security(t)
            p == failurePatterns_performance(t)
            b == failurePatterns_build(t)
        IN /\ c => category = "crisis-system"
           /\ (~c /\ s) => category = "security"
           /\ (~c /\ ~s /\ p) => category = "performance"
           /\ (~c /\ ~s /\ ~p /\ b) => category = "build"
           /\ (~c /\ ~s /\ ~p /\ ~b) => category = "general"
           /\ (Mentions(failure, CrisisTerms) /\ Mentions(failure, SecurityTerms))
                 => category = "crisis-system"
           /\ ( /\ Mentions(failure, SecurityTerms)
                /\ Mentions(failure, PerformanceTerms)
                /\ ~Mentions(failure, CrisisTerms) ) => category = "security"

\* C10 witness: a failure whose error names a performance term and whose
\* message names a security term has been classified as security.
C10_Witness ==
    /\ category = "security"
    /\ failure.error = <<"timeout">>
    /\ failure.message # NoText
    /\ HasAny(failure.message, SecurityTerms)

\* C11: determinePriority checks, in this order, crisis term, security term,
\* severity/blocking flag, performance term, and returns the priority of the
\* first that holds: critical, critical, high, medium, and low otherwise.
C11_PriorityOrder ==
    priority # Undefined =>
        LET t == PriorityText(failure)
            c == failurePatterns_crisis(t)
            s == failurePatterns_security(t)
            f == failure.severity = "critical" \/ failure.blocking
            p == failurePatterns_performance(t)
        IN /\ (c \/ s) => priority = "critical"
           /\ (~c /\ ~s /\ f) => priority = "high"
           /\ (~c /\ ~s /\ ~f /\ p) => priority = "medium"
           /\ (~c /\ ~s /\ ~f /\ ~p) => priority = "low"

\* C11 witness: a blocking failure that names a performance term and no
\* crisis or security term has been given priority high.
C11_Witness ==
    /\ priority = "high"
    /\ failure.blocking
    /\ failure.severity = Undefined
    /\ failure.error = <<"timeout">>
    /\ failure.message = <<>>

\* the text field is absent or empty
Blank(x) == x = NoText \/ x = <<>>

\* f has no text and no flag
Featureless(f) ==
    /\ Blank(f.error) /\ Blank(f.message) /\ Blank(f.name)
    /\ f.severity = Undefined /\ ~f.blocking

\* C12: a failure whose error, message and name are absent or empty and that
\* has no severity or blocking flag is classified, as general and low.
C12_BlankIsGeneralLow ==
    Featureless(failure) =>
        /\ priority \in {Undefined, "low"}
        /\ category \in {Undefined, "general"}

\* C12 witness: a failure with all three text fields absent has been given
\* priority low and category general.
C12_Witness ==
    /\ failure.error = NoText /\ failure.message = NoText /\ failure.name = NoText
    /\ Featureless(failure)
    /\ priority = "low"
    /\ category = "general"

\* C19 (as claimed): the priority and the category of a failure come from the
\* same first match: crisis-system implies critical, security implies critical.
C19_CategoryImpliesCritical ==
    (priority # Undefined /\ category # Undefined) =>
        (category \in {"crisis-system", "security"} => priority = "critical")

\* C13: classification is pure and idempotent: a call of determinePriority or
\* determineCategory returns what the earlier calls on the same failure
\* returned, and changes neither the failure, nor the generator's patterns,
\* nor the delivery queue and the rest of the dispatcher, nor any file.
C13_PureAndIdempotent ==
    [][/\ priority # Undefined => priority' = priority
       /\ category # Undefined => category' = category
       /\ failure' = failure
       /\ lastIndex' = lastIndex
       /\ dvars' = dvars]_vars

\* C13 witness: both functions have run on a failure whose crisis pattern
\* matched, and the patterns are as they were created.
C13_Witness ==
    /\ failure.error = <<"Crisis">>
    /\ priority = "critical"
    /\ category = "crisis-system"
    /\ lastIndex = NeverSearched
    /\ files = <<>>
    /\ queue = <<>>

\* the step leaves the sendMail that call i awaits unanswered
SendStillPending(i) ==
    /\ pc[i] = "sendMail"
    /\ pc'[i] = "sendMail"
    /\ cnt'[cur[i].id]["sendOk"] = cnt[cur[i].id]["sendOk"]

\* C18: while the sendMail of a call has not returned, the drain does not
\* advance: the busy flag stays set, a sendNotification call appends its
\* message and returns, and no message is shifted, sent or written.
C18_HungSendStallsDrain ==
    [][\A i \in Calls :
          SendStillPending(i) =>
              /\ isProcessing /\ isProcessing'
              /\ handed' = handed
              /\ cnt' = cnt
              /\ cur' = cur
              /\ files' = files
              /\ IF IsSubmitStep
                 THEN LET j == Cardinality(Submitted) + 1
                      IN /\ pc'[j] = "returned"
                         /\ queue' = Append(queue, subs'[j].email)
                 ELSE queue' = queue]_vars

\* C18 witness: the first call is still at its sendMail, the two later calls
\* have returned and their messages wait in the queue, nothing was sent or
\* written.
C18_Witness ==
    /\ pc = <<"sendMail", "returned", "returned">>
    /\ isProcessing
    /\ Len(queue) = 2
    /\ queue[1].id = 2 /\ queue[2].id = 3
    /\ handed = <<1>>
    /\ files = <<>>
    /\ \A i \in Calls : Outcomes(i) = 0

(***************************************************************************)
(* Properties of the mail monitor.                                         *)
(***************************************************************************)
\* the values the specification allows for a record's priority and category
RecordPriorities == {"critical", "high", "medium", "low"}
RecordCategories == {"crisis-system", "security", "performance", "build", "general"}

\* the bug report and TODO files on disk
RecordFiles == {n \in DOMAIN mfiles : n[1] \in {"bug-reports", "todos"}}

\* C14 (as claimed): every bug report and every TODO the mail monitor has
\* written has its priority among critical, high, medium, low and its
\* category among crisis-system, security, performance, build, general.
C14_PersistedFieldsInRange ==
    \A n \in RecordFiles :
        /\ mfiles[n].priority \in RecordPriorities
        /\ mfiles[n].category \in RecordCategories

\* C15 (as claimed): every TODO on disk has its JSON file and its Markdown
\* file, both named by the id of the TODO.
C15_JsonAndMarkdown ==
    \A n \in DOMAIN mfiles :
        n[1] = "todos" =>
            /\ TodoFile(mfiles[n].id, "json") \in DOMAIN mfiles
            /\ TodoFile(mfiles[n].id, "md") \in DOMAIN mfiles

\* email k left no trace: no bugReport object, file, list entry or notification
NoTraceOf(k) ==
    /\ bugReport[k] = NoReport
    /\ BugFile(generateBugId(k)) \notin DOMAIN mfiles
    /\ TodoFile(TodoId(generateBugId(k)), "json") \notin DOMAIN mfiles
    /\ TodoFile(TodoId(generateBugId(k)), "md") \notin DOMAIN mfiles
    /\ AckFile(generateBugId(k)) \notin DOMAIN mfiles
    /\ CopiesIn(generateBugId(k), bugReports) = 0
    /\ CopiesIn(generateBugId(k), notes) = 0

\* C16: an email whose parsing failed is skipped and leaves no bug report,
\* TODO, acknowledgment or notification; the step that skips it changes
\* neither the poll nor any other email of the batch, and the other emails
\* that wait for their parser can still be processed.
C16_ParseErrorSkipsOne ==
    /\ [](\A k \in DOMAIN mst :
            mst[k] = "skipped" =>
                /\ NoTraceOf(k)
                /\ \A j \in DOMAIN mst : mst[j] = "parsing" => ENABLED ParseOk(j))
    /\ [][\A k \in DOMAIN mst :
            (mst[k] = "parsing" /\ mst'[k] = "skipped") =>
                /\ <<mpc, logged, outcome>>' = <<mpc, logged, outcome>>
                /\ \A j \in DOMAIN mst : j # k => mst'[j] = mst[j]
                /\ <<batch, bugReport, mfiles, bugReports, notes>>'
                       = <<batch, bugReport, mfiles, bugReports, notes>>]_vars

\* C16 witness: of a batch of two bug reports the first was skipped on a
\* parse error and the second went through processEmail to its end; the
\* poll resolved and no error was caught.
C16_Witness ==
    /\ Len(batch) = 2
    /\ patterns_bug(ContentOf(batch[1]))
    /\ mst = <<"skipped", "processed">>
    /\ NoTraceOf(1)
    /\ BugFile(2) \in DOMAIN mfiles
    /\ AckFile(2) \in DOMAIN mfiles
    /\ notes = SetToBag({2})
    /\ mpc = "returned"
    /\ outcome = "resolved"
    /\ logged = NoError

\* C17 (as claimed): an IMAP error of a poll reaches the caller of
\* checkForBugReports: its promise is rejected.
C17_ErrorSurfaces ==
    (mpc = "returned" /\ logged # NoError) => outcome = "rejected"

\* C20 (as claimed): an email whose content names a security term and a
\* performance term is given category security.
C20_SecurityNeverMasked ==
    \A k \in DOMAIN bugReport :
        (/\ bugReport[k] # NoReport
         /\ patterns_security(ContentOf(batch[k]))
         /\ patterns_performance(ContentOf(batch[k])))
            => bugReport[k].category = "security"

(***************************************************************************)
(* Further properties of the dispatcher.                                   *)
(***************************************************************************)
\* a fallback write threw out of the catch block of some call's drain
DrainThrew == \E i \in Calls : pc[i] = "rejected"

\* C22: once logToFile has thrown out of the catch block, isProcessing is
\* true and stays true, no drain runs or starts again, every later
\* sendNotification only appends its message and returns, and nothing more
\* is shifted, sent or written.
C22_ThrowJamsTheDrain ==
    /\ [](DrainThrew => isProcessing /\ Draining = {})
    /\ [][DrainThrew =>
            /\ isProcessing'
            /\ Draining' = {}
            /\ handed' = handed
            /\ cnt' = cnt
            /\ files' = files
            /\ IF IsSubmitStep
               THEN LET j == Cardinality(Submitted) + 1
                    IN /\ pc'[j] = "returned"
                       /\ queue' = Append(queue, subs'[j].email)
               ELSE queue' = queue]_vars

\* C22 witness: the drain of the first call threw while it handled a failed
\* send; the two later calls returned and their messages sit in the queue.
C22_Witness ==
    /\ pc = <<"rejected", "returned", "returned">>
    /\ Count("sendFail", 1) = 1
    /\ isProcessing
    /\ Len(queue) = 2
    /\ subs[3].busy
    /\ files = <<>>

\* C23: whenever control is with the event loop, isProcessing = false
\* implies that the queue is empty.
C23_IdleMeansEmpty == ~isProcessing => queue = <<>>

\* C23 witness: a drain of two messages has ended: the flag is down again
\* and the queue is empty; and a message has waited in the queue meanwhile.
C23_Witness ==
    /\ ~isProcessing
    /\ queue = <<>>
    /\ Len(handed) >= 2
    /\ \E i \in Submitted : SubmitOf(i).busy

(***************************************************************************)
(* One notification of any type.                                           *)
(***************************************************************************)
\* the types a caller may pass: those of TEMPLATES, a type of the caller's
\* own, no type at all, and names every object inherits
Types == (DOMAIN TEMPLATES) \cup {"custom_event", Undefined} \cup ObjectPrototypeKeys

Payloads == {[issue |-> "SQL injection"], [issue |-> Undefined]}

\* the first sendNotification on the service
SubmitOnce(type, data) ==
    /\ Submitted = {}
    /\ sendNotification(type, data)

NextAnyType ==
    \/ Initialize
    \/ \E type \in Types, data \in Payloads : SubmitOnce(type, data)
    \/ \E i \in Calls : SendMailOk(i)
    \/ \E i \in Calls : SendMailFail(i)
    \/ \E i \in Calls, now \in 0..MaxClock : MkdirOk(i, now)
    \/ \E i \in Calls : WriteOk(i)
    \/ \E i \in Calls : ElseLogFail(i)
    \/ \E i \in Calls : CatchLogFail(i)

SpecAnyType == Init /\ [][NextAnyType]_vars

\* C30 (as claimed): every submitted type gets a message whose type header,
\* and whose fallback file name, carry the type as submitted; a type that
\* has no template gets the bug_report subject, priority normal and
\* X-Priority 3.
C30_UnknownTypeUsesBugReport ==
    /\ \A i \in Submitted :
          LET e == SubmitOf(i).email
              t == SubmitOf(i).type
          IN /\ e.xType = t
             /\ t \notin DOMAIN TEMPLATES =>
                   /\ e.subject = <<EMAIL_CONFIG.subject_prefix, TEMPLATES["bug_report"].subject>>
                   /\ e.priority = "normal"
                   /\ e.xPriority = "3"
    /\ \A n \in DOMAIN files : n[2] = SubmitOf(files[n].email.id).type

(***************************************************************************)
(* Further properties of the mail monitor.                                 *)
(***************************************************************************)
\* email k matches the bug pattern
IsBugReport(k) == patterns_bug(ContentOf(batch[k]))

\* processEmail of email k has ended, by return or by throw
ProcessEmailEnded(k) == mst[k] \in {"processed", "threw"}

\* the artifacts of email k
HasBugFile(k) == BugFile(generateBugId(k)) \in DOMAIN mfiles
HasTodoFile(k) == TodoFile(TodoId(generateBugId(k)), "json") \in DOMAIN mfiles
HasAckFile(k) == AckFile(generateBugId(k)) \in DOMAIN mfiles
Notified(k) == CopiesIn(generateBugId(k), notes)
Listed(k) == CopiesIn(generateBugId(k), bugReports)

\* only matching emails leave artifacts, and these come in the order bug
\* report file, TODO file, notification, acknowledgment file
ArtifactsInOrder ==
    \A k \in DOMAIN mst :
        /\ ~IsBugReport(k) =>
              ~HasBugFile(k) /\ ~HasTodoFile(k) /\ ~HasAckFile(k)
                  /\ Notified(k) = 0 /\ Listed(k) = 0
        /\ HasTodoFile(k) => HasBugFile(k)
        /\ Notified(k) > 0 => HasTodoFile(k)
        /\ HasAckFile(k) => Notified(k) = 1
        /\ Notified(k) <= 1 /\ Listed(k) <= 1

\* C29 (as claimed): only an email that matches the bug pattern leaves
\* artifacts, in the order bug report file, TODO file, bug_report
\* notification, acknowledgment file, and this.bugReports has grown by
\* exactly one for every matching email that processEmail has handled.
C29_ArtifactsInOrder ==
    /\ ArtifactsInOrder
    /\ \A k \in DOMAIN mst :
          (IsBugReport(k) /\ ProcessEmailEnded(k)) => Listed(k) = 1

(***************************************************************************)
(* Properties of the TODO generator.                                       *)
(***************************************************************************)
\* saveTodo(todo) has written both files of todo
Saved(todo) ==
    /\ JsonFile(todo.id) \in DOMAIN gfiles
    /\ gfiles[JsonFile(todo.id)] = todo
    /\ MdFile(todo.id) \in DOMAIN gfiles
    /\ gfiles[MdFile(todo.id)] = generateMarkdown(todo)

\* the notifications the generator has submitted
GeneratorSent == SelectSeq(sent, LAMBDA m : m.by = "generator")

\* the todos the running operation is to create
ExpectedTodos ==
    IF gop.kind = "test"
    THEN [n \in 1..Len(gop.failures) |-> TestTodo(gop.failures[n], n)]
    ELSE <<gtodo>>

AllSaved == \A n \in 1..Len(ExpectedTodos) : Saved(ExpectedTodos[n])

\* C24: in a generate operation that notifies, the notification is submitted
\* only once the TODO is saved (both files), and an operation whose saveTodo
\* threw has submitted nothing; a crisis system failure whose TODO could not
\* be written has submitted no crisis alert.
C24_SavedBeforeNotified ==
    /\ GeneratorSent # <<>> =>
          /\ gop.kind \in {"test", "build", "security", "crisis"}
          /\ AllSaved
          /\ Len(GeneratorSent) = 1
    /\ (gpc = "threw" /\ ~AllSaved) => GeneratorSent = <<>>
    /\ (gop.kind = "crisis" /\ ~Saved(CrisisTodo)) =>
          \A n \in 1..Len(sent) : sent[n].type # "crisis_system_error"

\* the crisis alert is on its way and the crisis TODO is on the disk
C24_Witness ==
    /\ gop.kind = "crisis"
    /\ gpc = "notify"
    /\ Saved(CrisisTodo)
    /\ sent = <<[type |-> "crisis_system_error", by |-> "generator"]>>

\* the todos of the test operation that reached the disk
CreatedTodos == {n \in 1..Len(ExpectedTodos) : Saved(ExpectedTodos[n])}

\* C25: once generateFromTestFailure has ended, there is exactly one TODO
\* per entry of failures, in the order of the entries, and exactly one
\* test_failure notification if a created TODO is critical or high and none
\* otherwise; without failures there is no TODO, nothing is submitted and
\* the list returned is empty.
C25_OneTodoPerFailure ==
    (gop.kind = "test" /\ gpc \in {"returned", "threw"}) =>
        /\ todos = ExpectedTodos
        /\ AllSaved
        /\ Cardinality(DOMAIN gfiles) = 2 * Len(gop.failures)
        /\ sent = IF \E n \in CreatedTodos :
                         ExpectedTodos[n].priority \in {"critical", "high"}
                  THEN <<[type |-> "test_failure", by |-> "generator"]>>
                  ELSE <<>>
        /\ gop.failures = <<>> => (gpc = "returned" /\ todos = <<>>)

\* the same, of the operations that returned
TodosOfReturned ==
    (gop.kind = "test" /\ gpc = "returned") =>
        /\ todos = ExpectedTodos
        /\ AllSaved
        /\ Cardinality(DOMAIN gfiles) = 2 * Len(gop.failures)
        /\ sent = IF \E n \in CreatedTodos :
                         ExpectedTodos[n].priority \in {"critical", "high"}
                  THEN <<[type |-> "test_failure", by |-> "generator"]>>
                  ELSE <<>>

\* the deadline values a record may carry
DeadlineValues == {NoDeadline, DeadlineAt(1), DeadlineAt(72)}

\* the stores that differ from fs in deadline values only
DeadlineVariants(fs) ==
    {[n \in DOMAIN fs |-> [fs[n] EXCEPT !.deadline = d[n[1]]]] :
        d \in [{n[1] : n \in DOMAIN fs} -> DeadlineValues]}

PastDeadline(fs, now) ==
    {n \in getAllTodos(fs) : fs[n].deadline # NoDeadline /\ fs[n].deadline[1] < now}

RunEnded == tpc \in {"returned", "threw"}

\* the finalisation steps in the order of the finally block, and the branch
\* handleFailures may end on
Finalisation == <<"cleanup", "generateReport", "handleFailures", "All tests passed!">>

IsPrefix(a, b) == Len(a) <= Len(b) /\ a = SubSeq(b, 1, Len(a))

\* C27: runAllTests empties results and criticalFailures when it starts;
\* once initialize or a test has thrown no further test runs; and cleanup,
\* generateReport and handleFailures each run once, in this order, whenever
\* the run ends, handleFailures being left out only when generateReport
\* threw.
C27_FinalisationAlwaysRuns ==
    /\ [](/\ IsPrefix(trace, Finalisation)
          /\ RunEnded =>
                /\ Len(trace) >= 2
                /\ Len(trace) = 2 => tpc = "threw")
    /\ [][/\ (tpc = "idle" /\ tpc' # "idle") =>
                (results' = <<>> /\ criticalFailures' = <<>>)
          /\ (suiteError' /\ ~suiteError) => (tpc' = "cleanup" /\ results' = results)
          /\ suiteError => (/\ results' = results
                            /\ criticalFailures' = criticalFailures
                            /\ tnum' = tnum
                            /\ tpc' # "test")]_vars

\* the escalation of the first test threw, six tests were skipped, and the
\* three finalisation steps ran
C27_Witness ==
    /\ suiteError
    /\ tnum = 1
    /\ results = <<Failure(1)>>
    /\ tpc = "returned"
    /\ trace = <<"cleanup", "generateReport", "handleFailures">>

\* initialize threw in this run
InitFailed == suiteError /\ tnum = 0

CrisisAlerts == SelectSeq(sent, LAMBDA m : m.type = "crisis_system_error")

TwoAlerts ==
    <<[type |-> "crisis_system_error", by |-> "generator"],
      [type |-> "crisis_system_error", by |-> "tests"]>>

\* the crisis hotline test failed and its escalation is over
EscalationEnded ==
    /\ results # <<>>
    /\ results[1] = Failure(1)
    /\ tpc \notin {"idle", "initialize", "escalate:todo", "escalate:alert", "escalate:log"}

\* the order of the escalation: TODO, alert of the generator, direct alert,
\* emergency log
EscalationInOrder ==
    /\ IsPrefix(CrisisAlerts, TwoAlerts)
    /\ CrisisAlerts # <<>> => Saved(CrisisTodo)
    /\ emergencyLog \in {0, 1}
    /\ emergencyLog = 1 => CrisisAlerts = TwoAlerts

\* C26: a failed crisis hotline test escalates in the order crisis TODO
\* saved, crisis alert of the generator, direct crisis alert, emergency log
\* entry; when the escalation is over exactly two crisis_system_error
\* notifications have been submitted.
C26_CrisisEscalation ==
    /\ EscalationInOrder
    /\ EscalationEnded =>
          /\ Saved(CrisisTodo)
          /\ CrisisAlerts = TwoAlerts
          /\ emergencyLog = 1
====
